---- MODULE Spec2Model ----
(***************************************************************************)
(* go-cast: reading and writing of cast containers (src/cast.go).          *)
(*                                                                         *)
(* The model is byte level.  A stream is a sequence of bytes 0..255, a     *)
(* uint16/uint32 is a natural number encoded little-endian, a uint64 (and  *)
(* a float64 bit pattern) is its tuple of 8 little-endian bytes, a float32 *)
(* is its 32-bit pattern, a VecN is a tuple of N float32 patterns and a    *)
(* string is a sequence of non-zero bytes.  Nodes live in a heap           *)
(* (sequence of node records); a *CastNode is an index into the heap and 0 *)
(* is the nil pointer.                                                     *)
(***************************************************************************)
EXTENDS Integers, Sequences, FiniteSets, TLC

VARIABLES
    castHashBase,   \* the package-level hash counter
    nodes,          \* heap of CastNode records
    castFile,       \* the container the program holds (NoFile when none)
    r,              \* the reader handed to the last Load
    rlog,           \* state of r after the last Load: offset, reads, first failure
    hdrs,           \* node address -> node header Load read for it
    phdrs,          \* the properties the last Load decoded, each with its header
    loaded,         \* TRUE while castFile is exactly what Load returned
    created,        \* hashes newCastNode gave to the nodes it made, in order
    w,              \* the sink of the last Write: bytes, calls, error
    last,           \* the last operation and what it returned
    thr             \* the goroutines that allocate hashes concurrently

vars == <<castHashBase, nodes, castFile, r, rlog, hdrs, phdrs, loaded, created, w, last, thr>>

-----------------------------------------------------------------------------
(* Bounds of the model *)

MaxVals == 2        \* values per property in the streams and in the calls
MaxCreated == 2     \* nodes made by newCastNode in one run
MaxProps == 1       \* properties held by the nodes when CreateProperty adds one
MaxSiblings == 2    \* children of a skeleton
MaxFail == 5        \* the latest call of the sink that is made to fail
MaxStr == 4         \* bytes of a stream readString is run on

-----------------------------------------------------------------------------
(* Errors *)

Nil == "nil"
ErrEOF == "EOF"
ErrUnexpectedEOF == "unexpected EOF"
ErrIO == "reader error"
ErrMagic == "invalid cast file magic"
ErrPropId == "cast: invalid property id"
Panic == "panic: index out of range"

NoFile == [none |-> TRUE]

-----------------------------------------------------------------------------
(* Program constants *)

castMagic == 1953718627          \* 0x74736163
castHashSeed == <<80, 82, 84, 82, 87, 73, 78, 83>>   \* 0x534E495752545250

NodeIdRoot == 1953460082         \* 0x746F6F72
NodeIdMesh == 1752393069         \* 0x6873656D
NodeIdBone == 1701736290         \* 0x656E6F62

PropByte == 98
PropShort == 104
PropInteger32 == 105
PropInteger64 == 108
PropFloat == 102
PropDouble == 100
PropString == 115
PropVector2 == 30258
PropVector3 == 30259
PropVector4 == 30260

PropIds == {PropByte, PropShort, PropInteger32, PropInteger64, PropFloat,
            PropDouble, PropString, PropVector2, PropVector3, PropVector4}

PropNameName == <<110>>                    \* "n"
PropNamePosition == <<112>>                \* "p"
PropNameVertexPositionBuffer == <<118, 112>>   \* "vp"

-----------------------------------------------------------------------------
(* encoding/binary, little endian *)

Zero64 == <<0, 0, 0, 0, 0, 0, 0, 0>>

\* the w low bytes of n, least significant first (two's complement for n < 0)
LE(n, width) == [i \in 1..width |-> (n \div (256 ^ (i - 1))) % 256]

U16(b) == b[1] + 256 * b[2]
U32(b) == b[1] + 256 * b[2] + 65536 * b[3] + 16777216 * b[4]

RECURSIVE Flatten(_)
Flatten(ss) == IF ss = <<>> THEN <<>> ELSE Head(ss) \o Flatten(Tail(ss))

\* castHashBase++ on a uint64 (wraps at 2^64)
RECURSIVE U64Inc(_)
U64Inc(b) ==
    IF b = <<>> THEN <<>>
    ELSE IF Head(b) = 255 THEN <<0>> \o U64Inc(Tail(b))
    ELSE <<Head(b) + 1>> \o Tail(b)

\* size in bytes of one element of the property type selected by id
ElemSize(id) ==
    CASE id = PropByte -> 1
      [] id = PropShort -> 2
      [] id = PropInteger32 -> 4
      [] id = PropInteger64 -> 8
      [] id = PropFloat -> 4
      [] id = PropDouble -> 8
      [] id = PropVector2 -> 8
      [] id = PropVector3 -> 12
      [] id = PropVector4 -> 16
      [] OTHER -> -1

\* the zero value of the element type (what make([]T, n) holds)
ZeroVal(id) ==
    CASE id \in {PropByte, PropShort, PropInteger32, PropFloat} -> 0
      [] id \in {PropInteger64, PropDouble} -> Zero64
      [] id = PropVector2 -> <<0, 0>>
      [] id = PropVector3 -> <<0, 0, 0>>
      [] id = PropVector4 -> <<0, 0, 0, 0>>
      [] OTHER -> <<>>

\* binary.Write of one element
EncVal(id, v) ==
    CASE id \in {PropByte, PropShort, PropInteger32, PropFloat} -> LE(v, ElemSize(id))
      [] id \in {PropInteger64, PropDouble} -> v
      [] OTHER -> Flatten([i \in 1..Len(v) |-> LE(v[i], 4)])

\* binary.Read of one element from its ElemSize(id) bytes
DecVal(id, b) ==
    CASE id = PropByte -> b[1]
      [] id = PropShort -> U16(b)
      [] id \in {PropInteger32, PropFloat} -> U32(b)
      [] id \in {PropInteger64, PropDouble} -> b
      [] OTHER -> [i \in 1..(Len(b) \div 4) |-> U32(SubSeq(b, 4 * i - 3, 4 * i))]

EncVals(id, vs) == Flatten([i \in 1..Len(vs) |-> EncVal(id, vs[i])])

DecVals(id, b, n) ==
    [i \in 1..n |-> DecVal(id, SubSeq(b, (i - 1) * ElemSize(id) + 1, i * ElemSize(id)))]

\* binary.Size(p.values): -1 for a slice of strings
BinarySize(id, vs) == IF id = PropString THEN -1 ELSE ElemSize(id) * Len(vs)

-----------------------------------------------------------------------------
(* The reader: the bytes it delivers and the error it gives at their end.   *)
(* Its state rs = [pos, reads, failed, rerr]: the offset, the number of    *)
(* binary.Read calls made on it, the number of the first call that failed  *)
(* (0: none) and the error that call gave.                                 *)

\* v bound to the name the operator Op gives it
Bind(v, Op(_)) == Op(v)

NewReaderState == [pos |-> 0, reads |-> 0, failed |-> 0, rerr |-> Nil]

\* the error of a read that finds fewer bytes than it needs
readFullErr(rd, pos) ==
    IF rd.err = ErrEOF /\ pos < Len(rd.data) THEN ErrUnexpectedEOF ELSE rd.err

\* binary.Read(r, binary.LittleEndian, &data) with binary.Size(data) = n
ReadFull(rd, rs, n) ==
    IF n = 0 THEN [err |-> Nil, bytes |-> <<>>, rs |-> [rs EXCEPT !.reads = @ + 1]]
    ELSE IF rs.pos + n <= Len(rd.data)
         THEN [err |-> Nil, bytes |-> SubSeq(rd.data, rs.pos + 1, rs.pos + n),
               rs |-> [rs EXCEPT !.reads = @ + 1, !.pos = @ + n]]
    ELSE [err |-> readFullErr(rd, rs.pos), bytes |-> <<>>,
          rs |-> [pos |-> Len(rd.data), reads |-> rs.reads + 1,
                  failed |-> IF rs.failed = 0 THEN rs.reads + 1 ELSE rs.failed,
                  rerr |-> IF rs.failed = 0 THEN readFullErr(rd, rs.pos) ELSE rs.rerr]]

\* the loop of readString giving back the bytes read when a read fails
RECURSIVE readStringLoopKeepsBytes(_, _, _)
readStringLoopKeepsBytes(rd, rs, str) ==
    Bind(ReadFull(rd, rs, 1), LAMBDA x :
        IF x.err # Nil /\ x.err # ErrEOF THEN [err |-> x.err, str |-> str, rs |-> x.rs]
        ELSE IF x.err = ErrEOF THEN [err |-> Nil, str |-> str, rs |-> x.rs]
        ELSE IF x.bytes[1] = 0 THEN [err |-> Nil, str |-> str, rs |-> x.rs]
        ELSE readStringLoopKeepsBytes(rd, x.rs, Append(str, x.bytes[1])))

\* readString: bytes up to the first zero byte; on io.EOF b stays 0 and the
\* loop ends as it does on a zero byte
RECURSIVE readStringLoop(_, _, _)
readStringLoop(rd, rs, str) ==
    Bind(ReadFull(rd, rs, 1), LAMBDA x :
        IF x.err # Nil /\ x.err # ErrEOF THEN [err |-> x.err, str |-> <<>>, rs |-> x.rs]
        ELSE IF x.err = ErrEOF THEN [err |-> Nil, str |-> str, rs |-> x.rs]
        ELSE IF x.bytes[1] = 0 THEN [err |-> Nil, str |-> str, rs |-> x.rs]
        ELSE readStringLoop(rd, x.rs, Append(str, x.bytes[1])))

readString(rd, rs) == readStringLoop(rd, rs, <<>>)

-----------------------------------------------------------------------------
(* Properties *)

NoProp == [none |-> TRUE]

\* newCastProperty without the default case of its switch
newCastPropertyAnyId(id, name, size) ==
    [err |-> Nil,
     prop |-> [id |-> id, name |-> name, values |-> [i \in 1..size |-> ZeroVal(id)]]]

\* newCastProperty(id, name, size)
newCastProperty(id, name, size) ==
    IF id \in PropIds
    THEN [err |-> Nil,
          prop |-> [id |-> id, name |-> name,
                    values |-> [i \in 1..size |-> ZeroVal(id)]]]
    ELSE [err |-> ErrPropId, prop |-> NoProp]

\* CastProperty.load keeping, for a string, as many values as were allocated
PropertyLoadKeepsSize(p, rd, rs) ==
    IF p.id = PropString
    THEN Bind(readString(rd, rs), LAMBDA s :
            IF s.err # Nil THEN [err |-> s.err, prop |-> p, rs |-> s.rs]
            ELSE [err |-> Nil,
                  prop |-> [p EXCEPT !.values = [i \in 1..Len(p.values) |-> s.str]],
                  rs |-> s.rs])
    ELSE Bind(ReadFull(rd, rs, BinarySize(p.id, p.values)), LAMBDA x :
            IF x.err # Nil THEN [err |-> x.err, prop |-> p, rs |-> x.rs]
            ELSE [err |-> Nil,
                  prop |-> [p EXCEPT !.values = DecVals(p.id, x.bytes, Len(p.values))],
                  rs |-> x.rs])

\* CastProperty.load
PropertyLoad(p, rd, rs) ==
    IF p.id = PropString
    THEN Bind(readString(rd, rs), LAMBDA s :
            IF s.err # Nil THEN [err |-> s.err, prop |-> p, rs |-> s.rs]
            ELSE [err |-> Nil, prop |-> [p EXCEPT !.values = <<s.str>>], rs |-> s.rs])
    ELSE Bind(ReadFull(rd, rs, BinarySize(p.id, p.values)), LAMBDA x :
            IF x.err # Nil THEN [err |-> x.err, prop |-> p, rs |-> x.rs]
            ELSE [err |-> Nil,
                  prop |-> [p EXCEPT !.values = DecVals(p.id, x.bytes, Len(p.values))],
                  rs |-> x.rs])

\* castPropertyHeader read from its 8 bytes
PropertyHeader(b) ==
    [Id |-> U16(SubSeq(b, 1, 2)),
     NameSize |-> U16(SubSeq(b, 3, 4)),
     ArrayLength |-> U32(SubSeq(b, 5, 8))]

\* loadCastProperty: the error, the property, the reader state, the header read
loadCastProperty(rd, rs) ==
    Bind(ReadFull(rd, rs, 8), LAMBDA h :
    IF h.err # Nil THEN [err |-> h.err, prop |-> NoProp, rs |-> h.rs, hdr |-> <<>>]
    ELSE
    Bind(PropertyHeader(h.bytes), LAMBDA header :
    Bind(ReadFull(rd, h.rs, header.NameSize), LAMBDA nm :
    IF nm.err # Nil THEN [err |-> nm.err, prop |-> NoProp, rs |-> nm.rs, hdr |-> header]
    ELSE
    Bind(newCastProperty(header.Id, nm.bytes, header.ArrayLength), LAMBDA np :
    IF np.err # Nil THEN [err |-> np.err, prop |-> NoProp, rs |-> nm.rs, hdr |-> header]
    ELSE
    Bind(PropertyLoad(np.prop, rd, nm.rs), LAMBDA ld :
    IF ld.err # Nil THEN [err |-> ld.err, prop |-> NoProp, rs |-> ld.rs, hdr |-> header]
    ELSE [err |-> Nil, prop |-> ld.prop, rs |-> ld.rs, hdr |-> header])))))

-----------------------------------------------------------------------------
(* Nodes *)

\* &CastNode{}: the zero node
ZeroNode == [id |-> 0, hash |-> Zero64, properties |-> <<>>,
             childNodes |-> <<>>, parentNode |-> 0]

\* n.properties[name] = property
MapPutIfAbsent(m, k, v) ==
    [x \in (DOMAIN m) \cup {k} |-> IF x \in DOMAIN m THEN m[x] ELSE v]

MapPut(m, k, v) == [x \in (DOMAIN m) \cup {k} |-> IF x = k THEN v ELSE m[x]]

\* the property loop of CastNode.load: count properties read into the map;
\* pl lists every property header read, with the property decoded from it
\* (NoProp when loadCastProperty failed)
RECURSIVE loadProperties(_, _, _, _, _)
loadProperties(rd, rs, props, pl, count) ==
    IF count = 0 THEN [err |-> Nil, props |-> props, rs |-> rs, pl |-> pl]
    ELSE Bind(loadCastProperty(rd, rs), LAMBDA p :
            IF p.err # Nil
            THEN [err |-> p.err, props |-> props, rs |-> p.rs,
                  pl |-> IF p.hdr = <<>> THEN pl
                         ELSE Append(pl, [header |-> p.hdr, property |-> NoProp])]
            ELSE loadProperties(rd, p.rs, MapPut(props, p.prop.name, p.prop),
                                Append(pl, [header |-> p.hdr, property |-> p.prop]),
                                count - 1))

\* castNodeHeader with PropertyCount and ChildCount taken from each other's bytes
NodeHeaderSwapped(b) ==
    [Id |-> U32(SubSeq(b, 1, 4)),
     NodeSize |-> U32(SubSeq(b, 5, 8)),
     NodeHash |-> SubSeq(b, 9, 16),
     PropertyCount |-> U32(SubSeq(b, 21, 24)),
     ChildCount |-> U32(SubSeq(b, 17, 20))]

\* castNodeHeader read from its 24 bytes
NodeHeader(b) ==
    [Id |-> U32(SubSeq(b, 1, 4)),
     NodeSize |-> U32(SubSeq(b, 5, 8)),
     NodeHash |-> SubSeq(b, 9, 16),
     PropertyCount |-> U32(SubSeq(b, 17, 20)),
     ChildCount |-> U32(SubSeq(b, 21, 24))]

\* CastNode.load on the node at address a. st = [h, rs, hd, pl, err]: the heap,
\* the reader state, the node headers read so far (by node address), the
\* properties decoded so far and the error.
RECURSIVE NodeLoad(_, _, _), loadChildren(_, _, _, _, _)
NodeLoad(st, a, rd) ==
    Bind(ReadFull(rd, st.rs, 24), LAMBDA x :
    IF x.err # Nil THEN [st EXCEPT !.err = x.err, !.rs = x.rs]
    ELSE
    Bind(NodeHeader(x.bytes), LAMBDA header :
    Bind(loadProperties(rd, x.rs, st.h[a].properties, st.pl, header.PropertyCount),
         LAMBDA ps :
    IF ps.err # Nil
    THEN [h |-> [st.h EXCEPT ![a].properties = ps.props],
          rs |-> ps.rs, hd |-> MapPut(st.hd, a, header), pl |-> ps.pl, err |-> ps.err]
    ELSE loadChildren(
            [h |-> [st.h EXCEPT ![a].properties = ps.props,
                                ![a].childNodes = [i \in 1..header.ChildCount |-> 0]],
             rs |-> ps.rs, hd |-> MapPut(st.hd, a, header), pl |-> ps.pl, err |-> Nil],
            a, rd, 1, header.ChildCount))))

\* the child loop of CastNode.load: n.childNodes[i] = &CastNode{};
\* n.childNodes[i].load(r); n.childNodes[i].parentNode = n
loadChildren(st, a, rd, i, count) ==
    IF i > count THEN st
    ELSE Bind(NodeLoad([st EXCEPT !.h = Append([st.h EXCEPT ![a].childNodes[i] =
                                                    Len(st.h) + 1],
                                               ZeroNode)],
                       Len(st.h) + 1, rd),
              LAMBDA st2 :
                IF st2.err # Nil THEN st2
                ELSE loadChildren([st2 EXCEPT !.h[Len(st.h) + 1].parentNode = a],
                                  a, rd, i + 1, count))

\* the root loop of Load
RECURSIVE loadRoots(_, _, _, _, _)
loadRoots(st, roots, rd, i, count) ==
    IF i > count THEN [st |-> st, roots |-> roots]
    ELSE Bind(NodeLoad([st EXCEPT !.h = Append(st.h, ZeroNode)], Len(st.h) + 1, rd),
              LAMBDA st1 :
                IF st1.err # Nil THEN [st |-> st1, roots |-> roots]
                ELSE loadRoots(st1, [roots EXCEPT ![i] = Len(st.h) + 1], rd, i + 1, count))

\* castHeader read from its 16 bytes
FileHeader(b) ==
    [Magic |-> U32(SubSeq(b, 1, 4)),
     Version |-> U32(SubSeq(b, 5, 8)),
     RootNodes |-> U32(SubSeq(b, 9, 12)),
     Flags |-> U32(SubSeq(b, 13, 16))]

\* Load without the check of the magic
MagicAny(magic) == TRUE

\* whether Load accepts the magic it read
MagicOk(magic) == magic = castMagic

\* what Load returns when it fails: the error and no container (and what it
\* had read until then)
LoadFailed(err, rs, hd, pl) ==
    [err |-> err, file |-> NoFile, h |-> <<>>, rs |-> rs, hd |-> hd, pl |-> pl]

\* Load(r): the error, the container, the heap holding its nodes, the reader
\* state, the node headers and the properties decoded
Load(rd) ==
    Bind(ReadFull(rd, NewReaderState, 16), LAMBDA x :
    IF x.err # Nil THEN LoadFailed(x.err, x.rs, <<>>, <<>>)
    ELSE
    Bind(FileHeader(x.bytes), LAMBDA header :
    IF ~MagicOk(header.Magic) THEN LoadFailed(ErrMagic, x.rs, <<>>, <<>>)
    ELSE
    Bind(loadRoots([h |-> <<>>, rs |-> x.rs, hd |-> <<>>, pl |-> <<>>, err |-> Nil],
                   [i \in 1..header.RootNodes |-> 0], rd, 1, header.RootNodes),
         LAMBDA res :
    IF res.st.err # Nil THEN LoadFailed(res.st.err, res.st.rs, res.st.hd, res.st.pl)
    ELSE [err |-> Nil,
          file |-> [flags |-> header.Flags, version |-> header.Version,
                    rootNodes |-> res.roots],
          h |-> res.st.h, rs |-> res.st.rs, hd |-> res.st.hd, pl |-> res.st.pl])))

-----------------------------------------------------------------------------
(* Sizes and writing *)

ErrWrite == "writer error"

RECURSIVE SumOver(_, _)
SumOver(f, S) ==
    IF S = {} THEN 0
    ELSE LET x == CHOOSE y \in S : TRUE IN f[x] + SumOver(f, S \ {x})

\* vs[0] on a string property without values: index out of range
PropertyPanics(p) == p.id = PropString /\ p.values = <<>>

\* CastProperty.len without the byte of the string terminator
PropertyLenNoTerminator(p) ==
    8 + Len(p.name)
      + (IF p.id = PropString THEN Len(p.values[1]) ELSE BinarySize(p.id, p.values))

\* CastProperty.len
PropertyLen(p) ==
    8 + Len(p.name)
      + (IF p.id = PropString THEN Len(p.values[1]) + 1 ELSE BinarySize(p.id, p.values))

\* whether CastNode.len panics on the node at a: some string property of the
\* subtree holds no value
RECURSIVE NodePanics(_, _)
NodePanics(h, a) ==
    \/ \E nm \in DOMAIN h[a].properties : PropertyPanics(h[a].properties[nm])
    \/ \E i \in 1..Len(h[a].childNodes) : NodePanics(h, h[a].childNodes[i])

\* CastNode.len
RECURSIVE NodeLen(_, _)
NodeLen(h, a) ==
    24 + SumOver([nm \in DOMAIN h[a].properties |-> PropertyLen(h[a].properties[nm])],
                 DOMAIN h[a].properties)
       + SumOver([i \in 1..Len(h[a].childNodes) |-> NodeLen(h, h[a].childNodes[i])],
                 1..Len(h[a].childNodes))

\* one w.Write(b) on the sink ws; the call numbered ws.failAt fails
WriterWrite(ws, b) ==
    IF ws.calls + 1 = ws.failAt
    THEN [ws EXCEPT !.calls = @ + 1, !.err = ErrWrite]
    ELSE [ws EXCEPT !.calls = @ + 1, !.out = @ \o b]

\* CastProperty.write
PropertyWrite(ws, p) ==
    LET w1 == WriterWrite(ws, LE(p.id, 2) \o LE(Len(p.name), 2)
                              \o LE(BinarySize(p.id, p.values), 4)) IN
    IF w1.err # Nil THEN w1
    ELSE
    LET w2 == WriterWrite(w1, p.name) IN
    IF w2.err # Nil THEN w2
    ELSE IF p.id = PropString
         THEN IF PropertyPanics(p) THEN [w2 EXCEPT !.err = Panic]
              ELSE WriterWrite(w2, p.values[1] \o <<0>>)
         ELSE WriterWrite(w2, EncVals(p.id, p.values))

\* the range over n.properties going on after a write that failed
RECURSIVE writePropertiesUnchecked(_, _, _)
writePropertiesUnchecked(ws, props, order) ==
    IF order = <<>> THEN ws
    ELSE writePropertiesUnchecked(PropertyWrite(ws, props[Head(order)]), props,
                                  Tail(order))

\* the range over n.properties in CastNode.write, in the order the map gives
RECURSIVE writeProperties(_, _, _)
writeProperties(ws, props, order) ==
    IF order = <<>> THEN ws
    ELSE LET w1 == PropertyWrite(ws, props[Head(order)]) IN
         IF w1.err # Nil THEN w1 ELSE writeProperties(w1, props, Tail(order))

\* CastNode.write on the node at a; ord[a] is the order in which the map of
\* node a is ranged over
RECURSIVE NodeWrite(_, _, _, _), writeChildren(_, _, _, _)
NodeWrite(ws, h, a, ord) ==
    IF NodePanics(h, a) THEN [ws EXCEPT !.err = Panic]
    ELSE
    LET n == h[a]
        w1 == WriterWrite(ws, LE(n.id, 4) \o LE(NodeLen(h, a), 4) \o n.hash
                              \o LE(Cardinality(DOMAIN n.properties), 4)
                              \o LE(Len(n.childNodes), 4))
    IN
    IF w1.err # Nil THEN w1
    ELSE LET w2 == writeProperties(w1, n.properties, ord[a]) IN
         IF w2.err # Nil THEN w2 ELSE writeChildren(w2, h, n.childNodes, ord)

writeChildren(ws, h, cs, ord) ==
    IF cs = <<>> THEN ws
    ELSE LET w1 == NodeWrite(ws, h, Head(cs), ord) IN
         IF w1.err # Nil THEN w1 ELSE writeChildren(w1, h, Tail(cs), ord)

\* CastFile.Write
FileWrite(ws, f, h, ord) ==
    LET w1 == WriterWrite(ws, LE(castMagic, 4) \o LE(f.version, 4)
                              \o LE(Len(f.rootNodes), 4) \o LE(f.flags, 4)) IN
    IF w1.err # Nil THEN w1 ELSE writeChildren(w1, h, f.rootNodes, ord)

\* the orders in which Go may range over a map with the keys S
Perms(S) ==
    {p \in [1..Cardinality(S) -> S] : \A i, j \in 1..Cardinality(S) : p[i] = p[j] => i = j}

\* one order for every node of the heap
RECURSIVE MapOrdersUpTo(_, _)
MapOrdersUpTo(h, n) ==
    IF n = 0 THEN {<<>>}
    ELSE {Append(f, p) : f \in MapOrdersUpTo(h, n - 1), p \in Perms(DOMAIN h[n].properties)}

MapOrders(h) == MapOrdersUpTo(h, Len(h))

\* the loop over n.childNodes running to its end: the last match
RECURSIVE lastWithHash(_, _, _)
lastWithHash(h, cs, hash) ==
    IF cs = <<>> THEN 0
    ELSE IF h[cs[Len(cs)]].hash = hash THEN cs[Len(cs)]
    ELSE lastWithHash(h, SubSeq(cs, 1, Len(cs) - 1), hash)

\* GetChildByHash: the loop over n.childNodes
RECURSIVE firstWithHash(_, _, _)
firstWithHash(h, cs, hash) ==
    IF cs = <<>> THEN 0
    ELSE IF h[Head(cs)].hash = hash THEN Head(cs)
    ELSE firstWithHash(h, Tail(cs), hash)

GetChildByHash(h, a, hash) == firstWithHash(h, h[a].childNodes, hash)

-----------------------------------------------------------------------------
(* Hash allocation and construction *)

\* nextHash without castHashBase++
nextHashNoIncrement(base) == [hash |-> base, base |-> base]

\* nextHash: the hash returned and the counter afterwards
nextHash(base) == [hash |-> base, base |-> U64Inc(base)]

\* newCastNode(id)
newCastNode(id, base) ==
    [node |-> [id |-> id, hash |-> nextHash(base).hash, properties |-> <<>>,
               childNodes |-> <<>>, parentNode |-> 0],
     base |-> nextHash(base).base]

\* New()
New == [flags |-> 0, version |-> 1, rootNodes |-> <<>>]

\* SetFlags that also drops the roots
SetFlagsDropsRoots(f, flags) == [f EXCEPT !.flags = flags, !.rootNodes = <<>>]

\* n.flags = flags; return n
SetFlags(f, flags) == [f EXCEPT !.flags = flags]

\* n.version = version; return n
SetVersion(f, version) == [f EXCEPT !.version = version]

\* uint32 arguments of SetFlags and SetVersion
Uint32Args == {0, 1, 2147483647}

-----------------------------------------------------------------------------
(* Input streams, laid out as the format's template describes them *)

StreamHash(k) == <<k, 0, 0, 0, 0, 0, 0, 0>>

\* n payload bytes, none of them zero, each below 128
RawBytes(n) == [i \in 1..n |-> ((i * 37) % 127) + 1]

\* CastProperty of the template: header, name, payload
SProp(id, name, alen, payload) ==
    LE(id, 2) \o LE(Len(name), 2) \o LE(alen, 4) \o name \o payload

SPropArr(id, name, k) == SProp(id, name, k, RawBytes(k * ElemSize(id)))
SPropStr(name, alen, str) == SProp(PropString, name, alen, str \o <<0>>)

\* CastNode of the template: header, properties, child nodes
SNode(kind, hash, props, children) ==
    LE(kind, 4) \o LE(24 + Len(Flatten(props)) + Len(Flatten(children)), 4) \o hash
    \o LE(Len(props), 4) \o LE(Len(children), 4) \o Flatten(props) \o Flatten(children)

\* Cast of the template: header, root nodes
SFile(magic, version, flags, roots) ==
    LE(magic, 4) \o LE(version, 4) \o LE(Len(roots), 4) \o LE(flags, 4) \o Flatten(roots)

StrCu == <<67, 117>>
BadPropId == 9999

TwoPropList ==
    <<SPropStr(PropNameName, 1, StrCu),
      SPropArr(PropVector3, PropNameVertexPositionBuffer, MaxVals)>>

\* property lists with unique names: one array of each kind and length, one
\* string with each array_len written by other tools, none, and two
GoodPropLists ==
    {<<SPropArr(id, PropNamePosition, k)>> : id \in PropIds \ {PropString}, k \in 0..MaxVals}
    \cup {<<SPropStr(PropNameName, alen, s)>> : alen \in {0, 1, 3}, s \in {<<>>, StrCu}}
    \cup {<<>>, TwoPropList}

Leaf(kind, k, pl) == SNode(kind, StreamHash(k), pl, <<>>)

\* streams with unique property names, known kinds and the right magic
GoodStreams ==
    {SFile(castMagic, 1, 0, <<Leaf(NodeIdMesh, 1, pl)>>) : pl \in GoodPropLists}
    \cup {SFile(castMagic, 1, 0,
                <<SNode(NodeIdRoot, StreamHash(1), <<>>, <<Leaf(NodeIdMesh, 2, pl)>>)>>) :
            pl \in GoodPropLists}
    \cup {SFile(castMagic, 1, 0,
                <<SNode(NodeIdRoot, StreamHash(1), <<>>,
                        <<Leaf(NodeIdBone, j, <<>>), Leaf(NodeIdBone, k, <<>>)>>)>>) :
            j \in {2}, k \in {2, 3}}
    \cup {SFile(castMagic, 2, 1, <<>>),
          SFile(castMagic, 1, 0, <<Leaf(NodeIdRoot, 1, <<>>), Leaf(NodeIdRoot, 2, <<>>)>>),
          SFile(castMagic, 1, 0,
                <<SNode(NodeIdRoot, StreamHash(1), <<>>,
                        <<SNode(NodeIdMesh, StreamHash(2), <<>>,
                                <<Leaf(NodeIdBone, 2, <<>>)>>)>>)>>)}

\* streams in which a node holds two properties of one name
DupStreams ==
    {SFile(castMagic, 1, 0,
           <<Leaf(NodeIdMesh, 1, <<SPropArr(PropInteger32, PropNamePosition, 1),
                                   SPropArr(PropByte, PropNamePosition, MaxVals)>>)>>),
     SFile(castMagic, 1, 0,
           <<SNode(NodeIdMesh, StreamHash(1),
                   <<SPropArr(PropInteger32, PropNamePosition, 1),
                     SPropStr(PropNameName, 1, StrCu),
                     SPropArr(PropByte, PropNamePosition, MaxVals)>>,
                   <<Leaf(NodeIdBone, 2, <<>>)>>)>>)}

\* streams that break the format: duplicate names, unknown kind tag, bad magic
BadStreams ==
    {SFile(castMagic, 1, 0, <<Leaf(NodeIdMesh, 1, <<SProp(BadPropId, PropNamePosition, 1, <<1>>)>>)>>)}
    \cup DupStreams
    \cup {SFile(m, 1, 0, <<Leaf(NodeIdRoot, 1, <<>>)>>) : m \in {0, castMagic + 1}}

ReaderErrs == {ErrEOF, ErrIO}

\* the byte sequences of length n over a zero byte and two letters
RECURSIVE BytesOfLen(_)
BytesOfLen(n) ==
    IF n = 0 THEN {<<>>}
    ELSE {Append(b, x) : b \in BytesOfLen(n - 1), x \in {0, 65, 255}}

\* the readers readString is run on
StringReaders ==
    {[data |-> b, err |-> e, wf |-> FALSE] :
        b \in UNION {BytesOfLen(n) : n \in 0..MaxStr}, e \in ReaderErrs}

\* the readers Load is given: a stream, whole or cut short, and the error at its end
Readers ==
    {[data |-> s, err |-> ErrEOF, wf |-> TRUE] : s \in GoodStreams}
    \cup {[data |-> s, err |-> ErrEOF, wf |-> FALSE] : s \in BadStreams}
    \cup UNION {{[data |-> SubSeq(s, 1, cut), err |-> e, wf |-> FALSE] :
                    cut \in 0..(Len(s) - 1), e \in ReaderErrs} :
                s \in GoodStreams \cup BadStreams}

\* the readers tried at any point of a run
FewReaders ==
    {[data |-> s, err |-> ErrEOF, wf |-> TRUE] :
        s \in {SFile(castMagic, 1, 0,
                     <<SNode(NodeIdRoot, StreamHash(1), <<>>,
                             <<Leaf(NodeIdBone, 2, <<>>), Leaf(NodeIdBone, k, <<>>)>>)>>) :
               k \in {2, 3}}}
    \cup {[data |-> SFile(castMagic + 1, 1, 0, <<>>), err |-> ErrEOF, wf |-> FALSE]}

ChildKinds == {NodeIdMesh}
Threads == {1, 2}

\* castHashSeed + k
RECURSIVE U64Add(_, _)
U64Add(b, k) ==
    IF b = <<>> THEN <<>>
    ELSE <<(Head(b) + k) % 256>> \o U64Add(Tail(b), (Head(b) + k) \div 256)

\* the hashes asked for: those the nodes can have, and one no node has
QueryHashes == {Zero64, StreamHash(2)} \cup {U64Add(castHashSeed, k) : k \in 0..1}

-----------------------------------------------------------------------------
(* Properties made by the program *)

\* n.CreateProperty(id, name) on the node record n
NodeCreateProperty(n, id, name) ==
    LET np == newCastProperty(id, name, 0) IN
    IF np.err # Nil THEN [err |-> np.err, node |-> n, prop |-> NoProp]
    ELSE [err |-> Nil, node |-> [n EXCEPT !.properties = MapPut(@, name, np.prop)],
          prop |-> np.prop]

\* p.SetValues(values...)
SetValues(p, values) == [p EXCEPT !.values = values]

\* p.AddValues(values...)
AddValues(p, values) == [p EXCEPT !.values = @ \o values]

\* the i-th value the calls pass for a property of kind id
SampleVal(id, i) ==
    CASE id = PropByte -> 7 + i
      [] id = PropShort -> 258 + i
      [] id = PropInteger32 -> 16909060 + i
      [] id = PropFloat -> 1065353216 + i
      [] id \in {PropInteger64, PropDouble} -> StreamHash(i)
      [] id = PropVector2 -> <<i, i + 1>>
      [] id = PropVector3 -> <<i, i + 1, i + 2>>
      [] id = PropVector4 -> <<i, i + 1, i + 2, i + 3>>
      [] OTHER -> [j \in 1..i |-> 64 + j]

CreateIds == {PropByte, PropString, PropVector3, BadPropId}
CreateNames == {PropNameName, PropNamePosition}

PropCount(h) ==
    SumOver([a \in 1..Len(h) |-> Cardinality(DOMAIN h[a].properties)], 1..Len(h))

-----------------------------------------------------------------------------
(* Typed access to properties *)

ErrNotFound == "cast: property not found"
ErrType == "cast: property has another type"
ErrEmptyValues == "cast: empty values"

\* the Go type T of the CastProperty[T] newCastProperty makes for the kind id
GoType(id) ==
    CASE id = PropByte -> "byte"
      [] id = PropShort -> "uint16"
      [] id = PropInteger32 -> "uint32"
      [] id = PropInteger64 -> "uint64"
      [] id = PropFloat -> "float32"
      [] id = PropDouble -> "float64"
      [] id = PropString -> "string"
      [] id = PropVector2 -> "Vec2"
      [] id = PropVector3 -> "Vec3"
      [] id = PropVector4 -> "Vec4"
      [] OTHER -> "none"

\* GetPropertyValues[T](node, name) on the node record n
GetPropertyValues(n, name, T) ==
    IF name \notin DOMAIN n.properties THEN [err |-> ErrNotFound, values |-> <<>>]
    ELSE IF GoType(n.properties[name].id) # T THEN [err |-> ErrType, values |-> <<>>]
    ELSE [err |-> Nil, values |-> n.properties[name].values]

\* getPropertyValues[T](node, name): the values alone, no error is returned
getPropertyValues(n, name, T) ==
    IF name \notin DOMAIN n.properties THEN <<>>
    ELSE IF GoType(n.properties[name].id) # T THEN <<>>
    ELSE n.properties[name].values

\* GetPropertyValue[T](node, name) without the test of len(values)
GetPropertyValueUnchecked(n, name, T) ==
    Bind(GetPropertyValues(n, name, T), LAMBDA vs :
        IF vs.err # Nil THEN [err |-> vs.err, index |-> 0]
        ELSE [err |-> Nil, index |-> 1])

\* GetPropertyValue[T](node, name): the error and &values[0] as the index of
\* the value pointed at (0: nil)
GetPropertyValue(n, name, T) ==
    Bind(GetPropertyValues(n, name, T), LAMBDA vs :
        IF vs.err # Nil THEN [err |-> vs.err, index |-> 0]
        ELSE IF Len(vs.values) = 0 THEN [err |-> ErrEmptyValues, index |-> 0]
        ELSE [err |-> Nil, index |-> 1])

\* the types asked for
ReadTypes == {"byte", "string"}

PanicType == "panic: interface conversion"

\* CreateProperty[T](node, name, id, values...) on the node record n: the
\* property is put into the map by node.CreateProperty before the assertion
\* property.(*CastProperty[T]), which panics when T is not the type of id
GenericCreateProperty(n, name, id, T, values) ==
    Bind(NodeCreateProperty(n, id, name), LAMBDA cp :
        IF cp.err # Nil THEN [err |-> cp.err, node |-> cp.node, prop |-> NoProp]
        ELSE IF GoType(id) # T THEN [err |-> PanicType, node |-> cp.node, prop |-> NoProp]
        ELSE [err |-> Nil,
              node |-> [cp.node EXCEPT !.properties[name].values = @ \o values],
              prop |-> [cp.prop EXCEPT !.values = @ \o values]])

SampleVals(id, k) == [i \in 1..k |-> SampleVal(id, i)]

-----------------------------------------------------------------------------
(* Typed nodes: skeleton, bones and IK handles *)

CastIdSkeleton == 1818585971     \* 0x6C656B73
CastIdBone == 1701736290         \* 0x656E6F62
CastIdIKHandle == 1684564841     \* 0x64686B69
CastIdInstance == 1953721961     \* 0x74736E69

CastPropertyNameStartBone == <<115, 98>>   \* "sb"

\* NewCastNode[T](): the switch on T gives the id; the node and the counter
NewCastNode(T, base) ==
    [node |-> [id |-> CASE T = "CastNodeSkeleton" -> CastIdSkeleton
                        [] T = "CastNodeBone" -> CastIdBone
                        [] T = "CastNodeIKHandle" -> CastIdIKHandle
                        [] T = "CastNodeInstance" -> CastIdInstance
                        [] OTHER -> 0,
               hash |-> nextHash(base).hash, properties |-> <<>>,
               childNodes |-> <<>>, parentNode |-> 0],
     base |-> nextHash(base).base]

\* the dynamic type of the iCastNode holding the node n: the pointer NewCastNode[T]
\* returned, or the &castNode{} made by Load (which stores no id)
DynamicType(n) ==
    [pointer |-> TRUE,
     struct |-> CASE n.id = CastIdSkeleton -> "CastNodeSkeleton"
                  [] n.id = CastIdBone -> "CastNodeBone"
                  [] n.id = CastIdIKHandle -> "CastNodeIKHandle"
                  [] OTHER -> "castNode"]

\* child, ok := c.(T) for the struct type T: whether the dynamic type is T
TypeAssert(dyn, T) == dyn = [pointer |-> FALSE, struct |-> T]

\* castNode.ChildByHash: the children with the hash are collected, the first
\* of them is returned
ChildByHash(h, a, hash) ==
    Bind(SelectSeq(h[a].childNodes, LAMBDA c : h[c].hash = hash), LAMBDA found :
        IF Len(found) > 0 THEN found[1] ELSE 0)

\* getChildByHash[T](node, name, useParent) on the node at a
getChildByHash(h, a, name, useParent, T) ==
    Bind(getPropertyValues(h[a], name, "uint64"), LAMBDA values :
        IF Len(values) = 0 THEN 0
        ELSE IF useParent /\ h[a].parentNode = 0 THEN 0
        ELSE Bind(ChildByHash(h, IF useParent THEN h[a].parentNode ELSE a, values[1]),
                  LAMBDA c :
                    IF c = 0 THEN 0
                    ELSE IF ~TypeAssert(DynamicType(h[c]), T) THEN 0
                    ELSE c))

\* createProperty[T](node, name, id, values...): the error of CreateProperty
\* is dropped and the type assertion is unchecked
createProperty(n, name, id, T, values) ==
    Bind(NodeCreateProperty(n, id, name), LAMBDA cp :
        IF cp.err # Nil \/ GoType(id) # T THEN [panic |-> TRUE, node |-> cp.node]
        ELSE [panic |-> FALSE,
              node |-> [cp.node EXCEPT !.properties[name].values = @ \o values]])

\* A uint32 whose high bit matters is kept as its 4 little-endian bytes, as
\* the uint64 values are.
CastPropertyNameParentIndex == <<112>>     \* "p"

\* x & 0xFFFFFFFF on a uint32
And32(b) == [i \in 1..4 |-> b[i] % 256]

\* x ^ 0x80000000: bit 31 is flipped
Xor32High(b) == [b EXCEPT ![4] = IF @ >= 128 THEN @ - 128 ELSE @ + 128]

\* x - 0x80000000 on a uint32 (wraps at 2^32)
Sub32High(b) == [b EXCEPT ![4] = (@ + 256 - 128) % 256]

\* int32(x) of a uint32 x: the same 32 bits read as two's complement
Int32(b) ==
    b[1] + 256 * b[2] + 65536 * b[3] + 16777216 * (IF b[4] >= 128 THEN b[4] - 256 ELSE b[4])

\* uint32(index) of an int32: the same 32 bits
Uint32(index) == LE(index, 4)

\* a + b on uint32 (wraps at 2^32), from byte i on with the carry c
RECURSIVE Add32From(_, _, _, _)
Add32From(a, b, i, c) ==
    IF i > 4 THEN <<>>
    ELSE <<(a[i] + b[i] + c) % 256>> \o Add32From(a, b, i + 1, (a[i] + b[i] + c) \div 256)

Add32(a, b) == Add32From(a, b, 1, 0)

\* uint32(math.Pow(2, 32)): the float64 4294967296 is outside uint32 and the
\* result of the conversion depends on the implementation (0 where the
\* conversion truncates, 0xFFFFFFFF where it saturates)
PowConversions == {<<0, 0, 0, 0>>, <<255, 255, 255, 255>>}

\* ParentIndex with values[0] - 0x80000000 alone
ParentIndexNoXor(n) ==
    Bind(getPropertyValues(n, CastPropertyNameParentIndex, "uint32"), LAMBDA values :
        IF Len(values) = 0 THEN -1
        ELSE Int32(Sub32High(And32(values[1]))))

\* n.ParentIndex()
ParentIndex(n) ==
    Bind(getPropertyValues(n, CastPropertyNameParentIndex, "uint32"), LAMBDA values :
        IF Len(values) = 0 THEN -1
        ELSE Int32(Sub32High(Xor32High(And32(values[1])))))

\* n.SetParentIndex(index), conv being what uint32(math.Pow(2, 32)) gave
SetParentIndex(n, index, conv) ==
    createProperty(n, CastPropertyNameParentIndex, PropInteger32, "uint32",
                   <<IF index < 0 THEN Add32(Uint32(index), conv) ELSE Uint32(index)>>).node

CastPropertyNameScale == <<115>>        \* "s"
CastPropertyNamePosition == <<112>>     \* "p"
CastPropertyNameRotation == <<114>>     \* "r"

-----------------------------------------------------------------------------
(* The program *)

NoWriter == [out |-> <<>>, calls |-> 0, failAt |-> 0, err |-> Nil]

Init ==
    /\ castHashBase = castHashSeed
    /\ nodes = <<>>
    /\ castFile = NoFile
    /\ r = [data |-> <<>>, err |-> ErrEOF, wf |-> FALSE]
    /\ rlog = NewReaderState
    /\ hdrs = <<>>
    /\ phdrs = <<>>
    /\ loaded = FALSE
    /\ created = <<>>
    /\ w = NoWriter
    /\ last = [op |-> "init"]
    /\ thr = [t \in Threads |-> [pc |-> "idle", hash |-> Zero64, tmp |-> Zero64, got |-> <<>>]]

\* cast, err := Load(rd)
LoadFrom(rd) ==
    LET res == Load(rd) IN
    /\ r' = rd
    /\ rlog' = res.rs
    /\ castFile' = res.file
    /\ nodes' = res.h
    /\ hdrs' = res.hd
    /\ phdrs' = res.pl
    /\ loaded' = (res.err = Nil)
    /\ w' = NoWriter
    /\ last' = [op |-> "Load", err |-> res.err]
    /\ UNCHANGED <<castHashBase, created, thr>>

\* a process whose first call is Load, on any of the readers
LoadFirst == last.op = "init" /\ \E rd \in Readers : LoadFrom(rd)

\* Load at any point of a run, on one of a few readers
LoadAgain == \E rd \in FewReaders : LoadFrom(rd)

\* cast := New()
DoNew ==
    /\ castFile' = New
    /\ nodes' = <<>>
    /\ hdrs' = <<>>
    /\ phdrs' = <<>>
    /\ loaded' = FALSE
    /\ w' = NoWriter
    /\ last' = [op |-> "New"]
    /\ UNCHANGED <<castHashBase, r, rlog, created, thr>>

\* root := cast.CreateRoot()
CreateRoot ==
    /\ castFile # NoFile
    /\ Len(created) < MaxCreated
    /\ LET nn == newCastNode(NodeIdRoot, castHashBase)
           a == Len(nodes) + 1
       IN
       /\ nodes' = Append(nodes, nn.node)
       /\ castHashBase' = nn.base
       /\ castFile' = [castFile EXCEPT !.rootNodes = Append(@, a)]
       /\ created' = Append(created, nn.node.hash)
       /\ last' = [op |-> "CreateRoot", res |-> a]
    /\ loaded' = FALSE
    /\ w' = NoWriter
    /\ UNCHANGED <<r, rlog, hdrs, phdrs, thr>>

\* cast.SetFlags(flags)
DoSetFlags ==
    /\ castFile # NoFile
    /\ \E flags \in Uint32Args :
        /\ castFile' = SetFlags(castFile, flags)
        /\ last' = [op |-> "SetFlags", arg |-> flags, res |-> castFile']
    /\ loaded' = FALSE
    /\ w' = NoWriter
    /\ UNCHANGED <<castHashBase, nodes, r, rlog, hdrs, phdrs, created, thr>>

\* cast.SetVersion(version)
DoSetVersion ==
    /\ castFile # NoFile
    /\ \E version \in Uint32Args :
        /\ castFile' = SetVersion(castFile, version)
        /\ last' = [op |-> "SetVersion", arg |-> version, res |-> castFile']
    /\ loaded' = FALSE
    /\ w' = NoWriter
    /\ UNCHANGED <<castHashBase, nodes, r, rlog, hdrs, phdrs, created, thr>>

\* n.CreateChild(id) without child.setParentNode(n)
CreateChildNoParent ==
    /\ castFile # NoFile
    /\ Len(created) < MaxCreated
    /\ \E n \in 1..Len(nodes), id \in ChildKinds :
        /\ nodes' = Append([nodes EXCEPT ![n].childNodes = Append(@, Len(nodes) + 1)],
                           newCastNode(id, castHashBase).node)
        /\ castHashBase' = newCastNode(id, castHashBase).base
        /\ created' = Append(created, newCastNode(id, castHashBase).node.hash)
        /\ last' = [op |-> "CreateChild", n |-> n, res |-> Len(nodes) + 1]
    /\ loaded' = FALSE
    /\ w' = NoWriter
    /\ UNCHANGED <<castFile, r, rlog, hdrs, phdrs, thr>>

\* child := n.CreateChild(id)
CreateChild ==
    /\ castFile # NoFile
    /\ Len(created) < MaxCreated
    /\ \E n \in 1..Len(nodes), id \in ChildKinds :
        LET nn == newCastNode(id, castHashBase)
            a == Len(nodes) + 1
        IN
        /\ nodes' = Append([nodes EXCEPT ![n].childNodes = Append(@, a)],
                           [nn.node EXCEPT !.parentNode = n])
        /\ castHashBase' = nn.base
        /\ created' = Append(created, nn.node.hash)
        /\ last' = [op |-> "CreateChild", n |-> n, res |-> a]
    /\ loaded' = FALSE
    /\ w' = NoWriter
    /\ UNCHANGED <<castFile, r, rlog, hdrs, phdrs, thr>>

\* c := n.GetChildByHash(hash)
DoGetChildByHash ==
    /\ \E n \in 1..Len(nodes), hash \in QueryHashes :
        last' = [op |-> "GetChildByHash", n |-> n, hash |-> hash,
                 res |-> GetChildByHash(nodes, n, hash)]
    /\ UNCHANGED <<castHashBase, nodes, castFile, r, rlog, hdrs, phdrs, loaded, created, w, thr>>

\* p, err := n.CreateProperty(id, name)
CreateProperty ==
    /\ \E n \in 1..Len(nodes), id \in CreateIds, name \in CreateNames :
        LET res == NodeCreateProperty(nodes[n], id, name) IN
        /\ name \in DOMAIN nodes[n].properties \/ PropCount(nodes) < MaxProps
        /\ nodes' = [nodes EXCEPT ![n] = res.node]
        /\ last' = [op |-> "CreateProperty", id |-> id, res |-> res.prop, err |-> res.err]
    /\ loaded' = FALSE
    /\ w' = NoWriter
    /\ UNCHANGED <<castHashBase, castFile, r, rlog, hdrs, phdrs, created, thr>>

\* p.AddValues(v) on a property of a node
DoAddValues ==
    /\ \E n \in 1..Len(nodes) : \E name \in DOMAIN nodes[n].properties :
        LET p == nodes[n].properties[name] IN
        /\ Len(p.values) < MaxVals
        /\ nodes' = [nodes EXCEPT ![n].properties[name] =
                        AddValues(p, <<SampleVal(p.id, Len(p.values) + 1)>>)]
        /\ last' = [op |-> "AddValues"]
    /\ loaded' = FALSE
    /\ w' = NoWriter
    /\ UNCHANGED <<castHashBase, castFile, r, rlog, hdrs, phdrs, created, thr>>

\* p.SetValues() on a property of a node
DoSetValues ==
    /\ \E n \in 1..Len(nodes) : \E name \in DOMAIN nodes[n].properties :
        LET p == nodes[n].properties[name] IN
        /\ nodes' = [nodes EXCEPT ![n].properties[name] = SetValues(p, <<>>)]
        /\ last' = [op |-> "SetValues"]
    /\ loaded' = FALSE
    /\ w' = NoWriter
    /\ UNCHANGED <<castHashBase, castFile, r, rlog, hdrs, phdrs, created, thr>>

\* err := cast.Write(w), on a sink whose call numbered fa fails (0: none does)
WriteTo(fa) ==
    /\ castFile # NoFile
    /\ \E ord \in MapOrders(nodes) :
        /\ w' = FileWrite([NoWriter EXCEPT !.failAt = fa], castFile, nodes, ord)
        /\ last' = [op |-> "Write", err |-> w'.err]
    /\ UNCHANGED <<castHashBase, nodes, castFile, r, rlog, hdrs, phdrs, loaded, created, thr>>

DoWrite == WriteTo(0)

\* err := cast.Write(w) on a sink one of whose calls fails
DoWriteFailing == \E fa \in 1..MaxFail : WriteTo(fa)

\* decoding and encoding: one Load, then CreateProperty and Write
SpecCodec ==
    Init /\ [][LoadFirst \/ CreateProperty \/ DoWrite \/ DoWriteFailing]_vars

\* building and querying trees
Next == DoNew \/ LoadAgain \/ CreateRoot \/ CreateChild \/ DoGetChildByHash \/ DoWrite

Spec == Init /\ [][Next]_vars

\* building nodes with properties and writing them
SpecProps ==
    Init /\ [][DoNew \/ CreateRoot \/ CreateChild \/ CreateProperty \/ DoAddValues
              \/ DoSetValues \/ DoWrite]_vars

\* values, err := GetPropertyValues[T](n, name)
DoGetPropertyValues ==
    /\ \E n \in 1..Len(nodes), name \in CreateNames, T \in ReadTypes :
        last' = [op |-> "GetPropertyValues", n |-> n, name |-> name, T |-> T,
                 err |-> GetPropertyValues(nodes[n], name, T).err,
                 values |-> GetPropertyValues(nodes[n], name, T).values]
    /\ UNCHANGED <<castHashBase, nodes, castFile, r, rlog, hdrs, phdrs, loaded, created,
                   w, thr>>

\* values := getPropertyValues[T](n, name): the caller is given no error
DoGetPropertyValuesInternal ==
    /\ \E n \in 1..Len(nodes), name \in CreateNames, T \in ReadTypes :
        last' = [op |-> "getPropertyValues", n |-> n, name |-> name, T |-> T,
                 err |-> Nil, values |-> getPropertyValues(nodes[n], name, T)]
    /\ UNCHANGED <<castHashBase, nodes, castFile, r, rlog, hdrs, phdrs, loaded, created,
                   w, thr>>

\* v, err := GetPropertyValue[T](n, name)
DoGetPropertyValue ==
    /\ \E n \in 1..Len(nodes), name \in CreateNames, T \in ReadTypes :
        last' = [op |-> "GetPropertyValue", n |-> n, name |-> name, T |-> T,
                 err |-> GetPropertyValue(nodes[n], name, T).err,
                 index |-> GetPropertyValue(nodes[n], name, T).index]
    /\ UNCHANGED <<castHashBase, nodes, castFile, r, rlog, hdrs, phdrs, loaded, created,
                   w, thr>>

\* p, err := CreateProperty[T](n, name, id, values...)
DoGenericCreateProperty ==
    /\ \E n \in 1..Len(nodes), name \in CreateNames, id \in {PropByte, PropInteger32, BadPropId},
          tid \in {PropByte, PropInteger32, PropString}, k \in 0..MaxVals :
        LET res == GenericCreateProperty(nodes[n], name, id, GoType(tid),
                                         SampleVals(tid, k)) IN
        /\ name \in DOMAIN nodes[n].properties \/ PropCount(nodes) < MaxProps
        /\ nodes' = [nodes EXCEPT ![n] = res.node]
        /\ last' = [op |-> "CreateProperty[T]", n |-> n, name |-> name,
                    values |-> SampleVals(tid, k), res |-> res.prop, err |-> res.err]
    /\ loaded' = FALSE
    /\ w' = NoWriter
    /\ UNCHANGED <<castHashBase, castFile, r, rlog, hdrs, phdrs, created, thr>>

\* cast2, err := Load(bytes.NewReader(buf.Bytes())) after cast.Write(&buf)
DoReload ==
    /\ last.op = "Write"
    /\ w.err = Nil
    /\ LoadFrom([data |-> w.out, err |-> ErrEOF, wf |-> FALSE])

\* containers built by the program, written and loaded again
SpecBuild ==
    Init /\ [][DoNew \/ CreateRoot \/ CreateChild \/ DoGenericCreateProperty \/ DoWrite
              \/ DoReload]_vars

\* str, err := readString(rd), on a reader at its start
DoReadString ==
    /\ \E rd \in StringReaders :
        /\ r' = rd
        /\ rlog' = readString(rd, NewReaderState).rs
        /\ last' = [op |-> "readString", str |-> readString(rd, NewReaderState).str,
                    err |-> readString(rd, NewReaderState).err]
    /\ UNCHANGED <<castHashBase, nodes, castFile, hdrs, phdrs, loaded, created, w, thr>>

SpecString ==
    Init /\ [][DoReadString]_vars

\* the container's header fields and roots
SpecFile ==
    Init /\ [][DoNew \/ LoadAgain \/ DoSetFlags \/ DoSetVersion \/ CreateRoot]_vars

\* making properties and reading them back by type
SpecRead ==
    Init /\ [][DoNew \/ CreateRoot \/ CreateProperty \/ DoAddValues \/ DoSetValues
              \/ DoGetPropertyValues \/ DoGetPropertyValuesInternal \/ DoGetPropertyValue]_vars

\* sk := NewCastNodeSkeleton() or h := NewCastNodeIKHandle(), in an empty heap
NewStandalone ==
    /\ nodes = <<>>
    /\ \E T \in {"CastNodeSkeleton", "CastNodeIKHandle"} :
        /\ nodes' = <<NewCastNode(T, castHashBase).node>>
        /\ castHashBase' = NewCastNode(T, castHashBase).base
        /\ created' = Append(created, NewCastNode(T, castHashBase).node.hash)
        /\ last' = [op |-> "NewCastNode", res |-> 1]
    /\ UNCHANGED <<castFile, r, rlog, hdrs, phdrs, loaded, w, thr>>

\* n.CreateChild(NewCastNode[T]()) on a skeleton: the child gets n as its
\* parent and is appended to n.childNodes
SkeletonCreate(T) ==
    /\ \E n \in 1..Len(nodes) :
        /\ nodes[n].id = CastIdSkeleton
        /\ Len(nodes[n].childNodes) < MaxSiblings
        /\ nodes' = Append([nodes EXCEPT ![n].childNodes = Append(@, Len(nodes) + 1)],
                           [NewCastNode(T, castHashBase).node EXCEPT !.parentNode = n])
        /\ last' = [op |-> "CreateChild", n |-> n, res |-> Len(nodes) + 1]
    /\ castHashBase' = NewCastNode(T, castHashBase).base
    /\ created' = Append(created, NewCastNode(T, castHashBase).node.hash)
    /\ UNCHANGED <<castFile, r, rlog, hdrs, phdrs, loaded, w, thr>>

\* b := sk.CreateBone()
CreateBone == SkeletonCreate("CastNodeBone")

\* h := sk.CreateIKHandle()
CreateIKHandle == SkeletonCreate("CastNodeIKHandle")

\* h.SetStartBone(hash), with the hash of a node or a hash no node has
SetStartBone ==
    /\ \E n \in 1..Len(nodes) : \E hash \in {nodes[a].hash : a \in 1..Len(nodes)} \cup {Zero64} :
        /\ nodes[n].id = CastIdIKHandle
        /\ nodes' = [nodes EXCEPT ![n] =
                        createProperty(nodes[n], CastPropertyNameStartBone, PropInteger64,
                                       "uint64", <<hash>>).node]
        /\ last' = [op |-> "SetStartBone", n |-> n]
    /\ UNCHANGED <<castHashBase, castFile, r, rlog, hdrs, phdrs, loaded, created, w, thr>>

\* b := h.StartBone()
DoStartBone ==
    /\ \E n \in 1..Len(nodes) :
        /\ nodes[n].id = CastIdIKHandle
        /\ last' = [op |-> "StartBone", n |-> n,
                    res |-> getChildByHash(nodes, n, CastPropertyNameStartBone, TRUE,
                                           "CastNodeBone")]
    /\ UNCHANGED <<castHashBase, nodes, castFile, r, rlog, hdrs, phdrs, loaded, created,
                   w, thr>>

\* b := NewCastNodeBone()
NewBone ==
    /\ Len(created) < MaxCreated
    /\ nodes' = Append(nodes, NewCastNode("CastNodeBone", castHashBase).node)
    /\ castHashBase' = NewCastNode("CastNodeBone", castHashBase).base
    /\ created' = Append(created, NewCastNode("CastNodeBone", castHashBase).node.hash)
    /\ last' = [op |-> "NewCastNode", res |-> Len(nodes) + 1]
    /\ UNCHANGED <<castFile, r, rlog, hdrs, phdrs, loaded, w, thr>>

\* b.CreateProperty(CastPropertyNameParentIndex, id): a property without values
BoneCreateProperty ==
    /\ \E n \in 1..Len(nodes), id \in {PropByte, PropInteger32} :
        /\ nodes' = [nodes EXCEPT ![n] =
                        NodeCreateProperty(nodes[n], id, CastPropertyNameParentIndex).node]
        /\ last' = [op |-> "CreateProperty", n |-> n]
    /\ UNCHANGED <<castHashBase, castFile, r, rlog, hdrs, phdrs, loaded, created, w, thr>>

\* b.SetParentIndex(index)
DoSetParentIndex ==
    /\ \E n \in 1..Len(nodes), index \in {-2147483647, -2, -1, 0, 1, 2147483647}, conv \in PowConversions :
        /\ nodes' = [nodes EXCEPT ![n] = SetParentIndex(nodes[n], index, conv)]
        /\ last' = [op |-> "SetParentIndex", n |-> n, index |-> index]
    /\ UNCHANGED <<castHashBase, castFile, r, rlog, hdrs, phdrs, loaded, created, w, thr>>

\* i := b.ParentIndex()
DoParentIndex ==
    /\ \E n \in 1..Len(nodes) :
        last' = [op |-> "ParentIndex", n |-> n, res |-> ParentIndex(nodes[n])]
    /\ UNCHANGED <<castHashBase, nodes, castFile, r, rlog, hdrs, phdrs, loaded, created,
                   w, thr>>

\* bones and their parent index
SpecBone ==
    Init /\ [][NewBone \/ BoneCreateProperty \/ DoSetParentIndex \/ DoParentIndex]_vars

\* i := NewCastNodeInstance(), in an empty heap; set holds the arguments of
\* the last SetPosition, SetRotation and SetScale
NewInstance ==
    /\ nodes = <<>>
    /\ nodes' = <<NewCastNode("CastNodeInstance", castHashBase).node>>
    /\ castHashBase' = NewCastNode("CastNodeInstance", castHashBase).base
    /\ created' = Append(created, NewCastNode("CastNodeInstance", castHashBase).node.hash)
    /\ last' = [op |-> "NewCastNode", res |-> <<>>,
                set |-> [p |-> <<>>, r |-> <<>>, s |-> <<>>]]
    /\ UNCHANGED <<castFile, r, rlog, hdrs, phdrs, loaded, w, thr>>

\* i.SetPosition(position)
SetPosition ==
    /\ nodes # <<>>
    /\ \E position \in {SampleVal(PropVector3, i) : i \in 1..2} :
        /\ nodes' = [nodes EXCEPT ![1] =
                        createProperty(@, CastPropertyNamePosition, PropVector3, "Vec3",
                                       <<position>>).node]
        /\ last' = [op |-> "SetPosition", res |-> <<>>,
                    set |-> [last.set EXCEPT !.p = <<position>>]]
    /\ UNCHANGED <<castHashBase, castFile, r, rlog, hdrs, phdrs, loaded, created, w, thr>>

\* i.SetRotation(rotation): the property is made under CastPropertyNamePosition
SetRotation ==
    /\ nodes # <<>>
    /\ \E rotation \in {SampleVal(PropVector4, i) : i \in 1..2} :
        /\ nodes' = [nodes EXCEPT ![1] =
                        createProperty(@, CastPropertyNamePosition, PropVector4, "Vec4",
                                       <<rotation>>).node]
        /\ last' = [op |-> "SetRotation", res |-> <<>>,
                    set |-> [last.set EXCEPT !.r = <<rotation>>]]
    /\ UNCHANGED <<castHashBase, castFile, r, rlog, hdrs, phdrs, loaded, created, w, thr>>

\* i.SetScale(scale)
SetScale ==
    /\ nodes # <<>>
    /\ \E scale \in {SampleVal(PropVector3, i) : i \in 1..2} :
        /\ nodes' = [nodes EXCEPT ![1] =
                        createProperty(@, CastPropertyNameScale, PropVector3, "Vec3",
                                       <<scale>>).node]
        /\ last' = [op |-> "SetScale", res |-> <<>>,
                    set |-> [last.set EXCEPT !.s = <<scale>>]]
    /\ UNCHANGED <<castHashBase, castFile, r, rlog, hdrs, phdrs, loaded, created, w, thr>>

\* i.Position()
Position ==
    /\ nodes # <<>>
    /\ last' = [op |-> "Position", 
                res |-> getPropertyValues(nodes[1], CastPropertyNamePosition, "Vec3"),
                set |-> last.set]
    /\ UNCHANGED <<castHashBase, nodes, castFile, r, rlog, hdrs, phdrs, loaded, created,
                   w, thr>>

\* i.Rotation(): the property is looked up under CastPropertyNamePosition
Rotation ==
    /\ nodes # <<>>
    /\ last' = [op |-> "Rotation", 
                res |-> getPropertyValues(nodes[1], CastPropertyNamePosition, "Vec4"),
                set |-> last.set]
    /\ UNCHANGED <<castHashBase, nodes, castFile, r, rlog, hdrs, phdrs, loaded, created,
                   w, thr>>

\* i.Scale()
Scale ==
    /\ nodes # <<>>
    /\ last' = [op |-> "Scale", 
                res |-> getPropertyValues(nodes[1], CastPropertyNameScale, "Vec3"),
                set |-> last.set]
    /\ UNCHANGED <<castHashBase, nodes, castFile, r, rlog, hdrs, phdrs, loaded, created,
                   w, thr>>

\* an instance node and its transform
SpecInstance ==
    Init /\ [][NewInstance \/ SetPosition \/ SetRotation \/ SetScale \/ Position
              \/ Rotation \/ Scale]_vars

\* n.CreateChild(c) with a node c that exists already: castNode.CreateChild is
\* promoted to every exported node type and takes any iCastNode
CreateChildOf ==
    /\ \E n \in 1..Len(nodes), c \in 1..Len(nodes) :
        /\ Len(nodes[n].childNodes) < MaxSiblings
        /\ nodes' = [[nodes EXCEPT ![c].parentNode = n] EXCEPT ![n].childNodes = Append(@, c)]
        /\ last' = [op |-> "CreateChild", n |-> n, res |-> c]
    /\ UNCHANGED <<castHashBase, castFile, r, rlog, hdrs, phdrs, loaded, created, w, thr>>

\* trees of typed nodes
SpecTree ==
    Init /\ [][NewStandalone \/ CreateBone \/ CreateIKHandle \/ CreateChildOf]_vars

\* skeletons with bones and IK handles that refer to bones
SpecIK ==
    Init /\ [][NewStandalone \/ CreateBone \/ CreateIKHandle \/ SetStartBone \/ DoStartBone]_vars

\* nextHash run by goroutine t, one memory access at a time.
\* hash := castHashBase
ReadCounter(t) ==
    /\ thr[t].pc = "idle"
    /\ Len(thr[t].got) < MaxCreated
    /\ thr' = [thr EXCEPT ![t].pc = "load", ![t].hash = castHashBase]
    /\ UNCHANGED <<castHashBase, nodes, castFile, r, rlog, hdrs, phdrs, loaded, created,
                   w, last>>

\* castHashBase++: the load of the counter
LoadCounter(t) ==
    /\ thr[t].pc = "load"
    /\ thr' = [thr EXCEPT ![t].pc = "store", ![t].tmp = castHashBase]
    /\ UNCHANGED <<castHashBase, nodes, castFile, r, rlog, hdrs, phdrs, loaded, created,
                   w, last>>

\* castHashBase++: the store of the incremented value; return hash
StoreCounter(t) ==
    /\ thr[t].pc = "store"
    /\ castHashBase' = U64Inc(thr[t].tmp)
    /\ thr' = [thr EXCEPT ![t].pc = "idle", ![t].got = Append(@, thr[t].hash)]
    /\ UNCHANGED <<nodes, castFile, r, rlog, hdrs, phdrs, loaded, created, w, last>>

\* goroutines creating nodes at the same time
SpecConc ==
    Init /\ [][\E t \in Threads : ReadCounter(t) \/ LoadCounter(t) \/ StoreCounter(t)]_vars

-----------------------------------------------------------------------------
(* Claims *)

\* the nodes of the container: the roots and all their descendants
RECURSIVE Subtree(_, _)
Subtree(h, a) ==
    {a} \cup UNION {Subtree(h, h[a].childNodes[i]) : i \in 1..Len(h[a].childNodes)}

FileNodes == UNION {Subtree(nodes, castFile.rootNodes[i]) : i \in 1..Len(castFile.rootNodes)}

\* C1: after a successful Load every decoded node reports through Id() and
\* Hash() the kind and the hash stored in its header in the stream.
C1_DecodedNodesKeepHeader ==
    (last.op = "Load" /\ last.err = Nil) =>
        \A a \in FileNodes : /\ nodes[a].id = hdrs[a].Id
                             /\ nodes[a].hash = hdrs[a].NodeHash

\* C2: Load of a well-formed stream followed by Write produces the bytes of
\* the stream.
C2_RoundTrip ==
    (last.op = "Write" /\ loaded /\ r.wf /\ w.err = Nil) => w.out = r.data

\* C3: for every node whose string properties all hold a value, len() (the
\* self_size write() puts in the node header) is the number of bytes write()
\* emits for the node and its subtree: 24, plus 8 + name length + payload
\* length for each property, plus the sizes of the children.
C3_LenIsBytesWritten ==
    LET PayloadLen(p) ==
            IF p.id = PropString THEN Len(p.values[1]) + 1 ELSE Len(EncVals(p.id, p.values))
    IN
    \A a \in 1..Len(nodes) :
        ~NodePanics(nodes, a) =>
            \A ord \in MapOrders(nodes) :
                LET ws == NodeWrite(NoWriter, nodes, a, ord)
                    ps == nodes[a].properties
                    cs == nodes[a].childNodes
                IN
                /\ ws.err = Nil
                /\ Len(ws.out) = NodeLen(nodes, a)
                /\ U32(SubSeq(ws.out, 5, 8)) = Len(ws.out)
                /\ Len(ws.out) =
                     24 + SumOver([nm \in DOMAIN ps |-> 8 + Len(nm) + PayloadLen(ps[nm])],
                                  DOMAIN ps)
                        + SumOver([i \in 1..Len(cs) |->
                                      Len(NodeWrite(NoWriter, nodes, cs[i], ord).out)],
                                  1..Len(cs))

\* a node with a string property holding a value and a child has been written
C3_Witness ==
    /\ last.op = "Write"
    /\ w.err = Nil
    /\ \E a \in 1..Len(nodes) :
        /\ nodes[a].childNodes # <<>>
        /\ \E nm \in DOMAIN nodes[a].properties :
            /\ nodes[a].properties[nm].id = PropString
            /\ nodes[a].properties[nm].values # <<>>

\* C4: every property loadCastProperty decoded holds as many values as the
\* array_len of its header says when its kind is not string, and exactly one
\* value when its kind is string, whatever array_len is.
C4_ValueCountAfterDecode ==
    last.op = "Load" =>
        \A i \in 1..Len(phdrs) :
            phdrs[i].property # NoProp =>
                Len(phdrs[i].property.values) =
                    (IF phdrs[i].header.Id = PropString THEN 1
                     ELSE phdrs[i].header.ArrayLength)

\* Load decoded a string property whose array_len is not 1
C4_Witness ==
    /\ last.op = "Load"
    /\ last.err = Nil
    /\ \E i \in 1..Len(phdrs) :
        /\ phdrs[i].header.Id = PropString
        /\ phdrs[i].header.ArrayLength > 1
        /\ phdrs[i].property # NoProp

\* C5: Load on a stream whose first little-endian u32 is not the magic
\* returns an error and no container, and reads nothing after the 16-byte
\* file header: its only read is the one of the header.
C5_BadMagicRejected ==
    (last.op = "Load" /\ Len(r.data) >= 4 /\ U32(SubSeq(r.data, 1, 4)) # castMagic) =>
        /\ last.err # Nil
        /\ castFile = NoFile
        /\ rlog.reads = 1
        /\ rlog.pos <= 16
        /\ hdrs = <<>>
        /\ phdrs = <<>>

\* Load refused a magic that bytes of a node follow
C5_Witness ==
    /\ last.op = "Load"
    /\ last.err = ErrMagic
    /\ Len(r.data) > 16
    /\ rlog.pos = 16

\* C6: a kind tag outside the closed set is rejected with an error, both in a
\* property header Load reads (Load fails, no property is made of the header)
\* and in CreateProperty (no property is returned).
C6_UnknownKindRejected ==
    LET BadKindEntries == {i \in 1..Len(phdrs) : phdrs[i].header.Id \notin PropIds}
    IN
    /\ (last.op = "Load" /\ BadKindEntries # {}) =>
            /\ last.err # Nil
            /\ rlog.failed = 0 => last.err = ErrPropId
            /\ castFile = NoFile
            /\ \A i \in BadKindEntries : phdrs[i].property = NoProp
    /\ (last.op = "CreateProperty" /\ last.id \notin PropIds) =>
            /\ last.err = ErrPropId
            /\ last.res = NoProp

\* Load read, whole, a property with an unknown kind tag and refused it
C6_Witness ==
    LET BadKindEntries == {i \in 1..Len(phdrs) : phdrs[i].header.Id \notin PropIds}
    IN
    /\ last.op = "Load"
    /\ BadKindEntries # {}
    /\ rlog.failed = 0
    /\ last.err = ErrPropId

\* C7: when a read fails during Load, Load returns that read's error and no
\* container, and makes no read after the one that failed.
C7_ReadFailureAbortsLoad ==
    (last.op = "Load" /\ rlog.failed # 0) =>
        /\ last.err = rlog.rerr
        /\ castFile = NoFile
        /\ rlog.reads = rlog.failed

\* the children of node n whose hash is hash, as positions in n.childNodes
Matches(n, hash) ==
    {i \in 1..Len(nodes[n].childNodes) : nodes[nodes[n].childNodes[i]].hash = hash}

\* C8: GetChildByHash returns the first direct child, in storage order, whose
\* hash is the one asked for, nil when no direct child has it (never a node
\* that is not a direct child), the same on a repeated call, and right after
\* c := n.CreateChild(k), n.GetChildByHash(c.Hash()) is c.
C8_GetChildByHash ==
    /\ \A n \in 1..Len(nodes), hash \in QueryHashes :
        /\ Matches(n, hash) = {} => GetChildByHash(nodes, n, hash) = 0
        /\ Matches(n, hash) # {} =>
              \E i \in Matches(n, hash) :
                  /\ GetChildByHash(nodes, n, hash) = nodes[n].childNodes[i]
                  /\ \A j \in Matches(n, hash) : i <= j
    /\ last.op = "GetChildByHash" => GetChildByHash(nodes, last.n, last.hash) = last.res
    /\ last.op = "CreateChild" =>
          GetChildByHash(nodes, last.n, nodes[last.res].hash) = last.res

\* GetChildByHash returned the first of two children with the hash asked for
C8_Witness ==
    /\ last.op = "GetChildByHash"
    /\ last.res # 0
    /\ Cardinality(Matches(last.n, last.hash)) >= 2

\* C9: run sequentially, the k-th node newCastNode makes gets the hash
\* seed + (k - 1), the counter is the seed plus the number of nodes made, the
\* hashes given are pairwise distinct, and Load leaves the counter alone.
C9_SequentialHashes ==
    /\ [](/\ castHashBase = U64Add(castHashSeed, Len(created))
          /\ \A k \in 1..Len(created) : created[k] = U64Add(castHashSeed, k - 1)
          /\ \A j, k \in 1..Len(created) : created[j] = created[k] => j = k
          /\ last.op \in {"CreateRoot", "CreateChild"} =>
                nodes[last.res].hash = created[Len(created)])
    /\ [][last'.op = "Load" => castHashBase' = castHashBase]_vars

\* nodes were made, and then Load ran
C9_Witness ==
    /\ Len(created) >= 2
    /\ last.op = "Load"
    /\ last.err = Nil

\* C10: when the goroutines have made their nodes, whatever the order of
\* their steps, the hashes they got are pairwise distinct and the counter has
\* advanced by the number of nodes made.
C10_ConcurrentHashes ==
    LET AllGot == thr[1].got \o thr[2].got
    IN
    (\A t \in Threads : thr[t].pc = "idle") =>
        /\ \A j, k \in 1..Len(AllGot) : AllGot[j] = AllGot[k] => j = k
        /\ castHashBase = U64Add(castHashSeed, Len(AllGot))

\* C11: the hashes of the nodes created in a container made by New() are the
\* allocator's sequence from its seed, seed + (k - 1) for the k-th node,
\* whatever nodes were created before in other containers.
C11_PerContainerHashes ==
    LET MadeByNew == castFile # NoFile /\ hdrs = <<>>
    IN
    MadeByNew => \A a \in 1..Len(nodes) : nodes[a].hash = U64Add(castHashSeed, a - 1)

\* C12: two Write calls in a row, on the container left as it is, emit the
\* same bytes.
C12_WriteIsDeterministic ==
    [][(last.op = "Write" /\ last'.op = "Write" /\ w.err = Nil /\ w'.err = Nil)
           => w'.out = w.out]_vars

\* C13: a typed read of a property's values returns an error and no values
\* when the node has no property of the name or the property is of another
\* type, and the stored values with a nil error otherwise.
C13_TypedReadReportsErrors ==
    LET LastReadHasNoMatch ==
            \/ last.name \notin DOMAIN nodes[last.n].properties
            \/ GoType(nodes[last.n].properties[last.name].id) # last.T
    IN
    last.op \in {"GetPropertyValues", "getPropertyValues"} =>
        IF LastReadHasNoMatch
        THEN last.err # Nil /\ last.values = <<>>
        ELSE last.err = Nil /\ last.values = nodes[last.n].properties[last.name].values

\* C20: GetPropertyValue[T] returns a pointer to the first stored value and a
\* nil error when the property exists with type T and holds a value,
\* ErrEmptyValues and no pointer when it exists with type T and holds no
\* value, and the error of GetPropertyValues when the property is absent or
\* of another type.
C20_FirstValueOrError ==
    LET LastReadHasNoMatch ==
            \/ last.name \notin DOMAIN nodes[last.n].properties
            \/ GoType(nodes[last.n].properties[last.name].id) # last.T
    IN
    last.op = "GetPropertyValue" =>
        IF LastReadHasNoMatch
        THEN /\ last.err = GetPropertyValues(nodes[last.n], last.name, last.T).err
             /\ last.err \in {ErrNotFound, ErrType}
             /\ last.index = 0
        ELSE IF nodes[last.n].properties[last.name].values = <<>>
             THEN last.err = ErrEmptyValues /\ last.index = 0
             ELSE last.err = Nil /\ last.index = 1

\* GetPropertyValue was asked for the value of a property of the type asked
\* for that holds no value
C20_Witness ==
    LET LastReadHasNoMatch ==
            \/ last.name \notin DOMAIN nodes[last.n].properties
            \/ GoType(nodes[last.n].properties[last.name].id) # last.T
    IN
    /\ last.op = "GetPropertyValue"
    /\ ~LastReadHasNoMatch
    /\ nodes[last.n].properties[last.name].values = <<>>
    /\ last.err = ErrEmptyValues

\* C14: StartBone returns none when the IK handle has no parent or no
\* start-bone property, and otherwise the first direct child of the handle's
\* parent whose hash is the property's first value.
C14_SiblingResolution ==
    LET StartBoneOf(n) ==
            IF nodes[n].parentNode = 0
               \/ CastPropertyNameStartBone \notin DOMAIN nodes[n].properties
            THEN 0
            ELSE Bind(Matches(nodes[n].parentNode,
                              nodes[n].properties[CastPropertyNameStartBone].values[1]),
                      LAMBDA m :
                        IF m = {} THEN 0
                        ELSE nodes[nodes[n].parentNode].childNodes[
                                 CHOOSE i \in m : \A j \in m : i <= j])
    IN
    last.op = "StartBone" => last.res = StartBoneOf(last.n)

\* C15: every root has a nil parent, every node in the children list of a
\* node n has n as its parent, and CreateChild returns the child it stored
\* at the end of the children list.
C15_ParentBackReference ==
    /\ castFile # NoFile =>
          \A i \in 1..Len(castFile.rootNodes) : nodes[castFile.rootNodes[i]].parentNode = 0
    /\ \A n \in 1..Len(nodes) : \A i \in 1..Len(nodes[n].childNodes) :
          nodes[nodes[n].childNodes[i]].parentNode = n
    /\ last.op = "CreateChild" =>
          /\ nodes[last.n].childNodes[Len(nodes[last.n].childNodes)] = last.res
          /\ nodes[last.res].parentNode = last.n

\* CreateChild added a child to a decoded node that had two children
C15_Witness ==
    /\ last.op = "CreateChild"
    /\ hdrs # <<>>
    /\ Len(nodes[last.n].childNodes) >= 3

\* C16: in a container decoded from a stream with pairwise distinct node
\* hashes, and then extended by CreateRoot and CreateChild, no two nodes have
\* the same hash.
C16_HashesUniqueInContainer ==
    LET StoredHashesDistinct ==
            \A a, b \in DOMAIN hdrs : hdrs[a].NodeHash = hdrs[b].NodeHash => a = b
    IN
    (castFile # NoFile /\ StoredHashesDistinct) =>
        \A a, b \in FileNodes : nodes[a].hash = nodes[b].hash => a = b

\* C17: every property of kind string holds exactly one value.
C17_StringHoldsOneValue ==
    \A n \in 1..Len(nodes) : \A name \in DOMAIN nodes[n].properties :
        nodes[n].properties[name].id = PropString =>
            Len(nodes[n].properties[name].values) = 1

\* C18: Load of a well-formed stream returns a container and a nil error,
\* and Write of that container to a sink that never fails returns a nil
\* error.
C18_WellFormedLoadsAndWrites ==
    /\ (last.op = "Load" /\ r.wf) => (last.err = Nil /\ castFile # NoFile)
    /\ (last.op = "Write" /\ loaded /\ r.wf /\ w.failAt = 0) => last.err = Nil

\* a container decoded from a well-formed stream with properties was written
C18_Witness ==
    /\ last.op = "Write"
    /\ loaded
    /\ r.wf
    /\ w.failAt = 0
    /\ last.err = Nil
    /\ phdrs # <<>>

\* C19: when a call of the sink fails during Write, Write returns the error
\* of that call and makes no further call of the sink.
C19_WriteFailureAbortsWrite ==
    (last.op = "Write" /\ w.failAt # 0 /\ w.calls >= w.failAt) =>
        /\ last.err = ErrWrite
        /\ w.calls = w.failAt

\* the write of a property's payload failed
C19_Witness ==
    /\ last.op = "Write"
    /\ w.failAt = 5
    /\ w.calls = 5
    /\ last.err = ErrWrite

\* C21: New() gives flags 0, version 1 and no roots; SetFlags changes the
\* flags only and SetVersion the version only, each returning the container;
\* CreateRoot appends one root of kind root without parent and properties
\* and keeps the earlier roots, in their order.
C21_HeaderFieldFrames ==
    [][/\ last'.op = "New" =>
            /\ castFile'.flags = 0
            /\ castFile'.version = 1
            /\ castFile'.rootNodes = <<>>
       /\ last'.op = "SetFlags" =>
            /\ castFile'.flags = last'.arg
            /\ castFile'.version = castFile.version
            /\ castFile'.rootNodes = castFile.rootNodes
            /\ nodes' = nodes
            /\ last'.res = castFile'
       /\ last'.op = "SetVersion" =>
            /\ castFile'.version = last'.arg
            /\ castFile'.flags = castFile.flags
            /\ castFile'.rootNodes = castFile.rootNodes
            /\ nodes' = nodes
            /\ last'.res = castFile'
       /\ last'.op = "CreateRoot" =>
            /\ castFile'.rootNodes = Append(castFile.rootNodes, last'.res)
            /\ castFile'.flags = castFile.flags
            /\ castFile'.version = castFile.version
            /\ last'.res \notin 1..Len(nodes)
            /\ \A a \in 1..Len(nodes) : nodes'[a] = nodes[a]
            /\ nodes'[last'.res].id = NodeIdRoot
            /\ nodes'[last'.res].parentNode = 0
            /\ nodes'[last'.res].properties = <<>>
            /\ nodes'[last'.res].childNodes = <<>>]_vars

\* a second root was added to a container whose flags and version were set
C21_Witness ==
    /\ last.op = "CreateRoot"
    /\ hdrs = <<>>
    /\ Len(castFile.rootNodes) = 2
    /\ castFile.flags = 2147483647
    /\ castFile.version = 0

\* C22: ParentIndex() of a bone without a stored parent index is -1, and of
\* a bone whose parent-index property stores the 32-bit value v it is the
\* integer in -2^31..2^31-1 that has the bits of v in two's complement.
C22_ParentIndexSigned ==
    LET StoresParentIndex(n) ==
            /\ CastPropertyNameParentIndex \in DOMAIN nodes[n].properties
            /\ nodes[n].properties[CastPropertyNameParentIndex].id = PropInteger32
            /\ nodes[n].properties[CastPropertyNameParentIndex].values # <<>>
    IN
    last.op = "ParentIndex" =>
        IF ~StoresParentIndex(last.n) THEN last.res = -1
        ELSE LET v == nodes[last.n].properties[CastPropertyNameParentIndex].values[1] IN
             IF v[4] < 128 THEN last.res >= 0 /\ LE(last.res, 4) = v
             ELSE /\ last.res < 0
                  /\ LE(last.res + 2147483647 + 1, 4) = [v EXCEPT ![4] = @ - 128]

\* the parent index of a bone that stores a value with bit 31 set was asked for
C22_Witness ==
    LET StoresParentIndex(n) ==
            /\ CastPropertyNameParentIndex \in DOMAIN nodes[n].properties
            /\ nodes[n].properties[CastPropertyNameParentIndex].id = PropInteger32
            /\ nodes[n].properties[CastPropertyNameParentIndex].values # <<>>
    IN
    /\ last.op = "ParentIndex"
    /\ StoresParentIndex(last.n)
    /\ nodes[last.n].properties[CastPropertyNameParentIndex].values[1][4] >= 128
    /\ last.res < -1

\* C23: the array_len write() puts in the property header is, for a string
\* property, the byte length of its string plus one and, for every other
\* kind, the element size times the number of values.
C23_ArrayLenWritten ==
    LET WrittenArrayLen(p) == SubSeq(PropertyWrite(NoWriter, p).out, 5, 8)
    IN
    \A a \in 1..Len(nodes) : \A nm \in DOMAIN nodes[a].properties :
        LET p == nodes[a].properties[nm] IN
        ~PropertyPanics(p) =>
            WrittenArrayLen(p) =
                IF p.id = PropString THEN LE(Len(p.values[1]) + 1, 4)
                ELSE LE(ElemSize(p.id) * Len(p.values), 4)

\* C24: a node whose header counts several properties of one name is decoded
\* without error; the node holds one property per distinct name, the last of
\* that name in the stream; all the properties counted are read before the
\* children are.
C24_DuplicateNamesLastWins ==
    LET PropsRead(a) ==
            LET before == SumOver([j \in 1..(a - 1) |-> hdrs[j].PropertyCount], 1..(a - 1)) IN
            SubSeq(phdrs, before + 1, before + hdrs[a].PropertyCount)
    IN
    /\ (last.op = "Load" /\ r.data \in DupStreams) =>
            /\ last.err = Nil
            /\ castFile # NoFile
            /\ rlog.pos = Len(r.data)
    /\ (last.op = "Load" /\ last.err = Nil) =>
            /\ Len(phdrs) =
                 SumOver([a \in 1..Len(nodes) |-> hdrs[a].PropertyCount], 1..Len(nodes))
            /\ \A a \in 1..Len(nodes) :
                LET ps == PropsRead(a) IN
                /\ DOMAIN nodes[a].properties = {ps[i].property.name : i \in 1..Len(ps)}
                /\ \A i \in 1..Len(ps) :
                     (\A j \in (i + 1)..Len(ps) : ps[j].property.name # ps[i].property.name)
                        => nodes[a].properties[ps[i].property.name] = ps[i].property
                /\ Len(nodes[a].childNodes) = hdrs[a].ChildCount
                /\ \A i \in 1..Len(nodes[a].childNodes) : nodes[a].childNodes[i] > a

\* a node with three properties, two of them of one name, and a child was decoded
C24_Witness ==
    /\ last.op = "Load"
    /\ last.err = Nil
    /\ Len(nodes) = 2
    /\ hdrs[1].PropertyCount = 3
    /\ Cardinality(DOMAIN nodes[1].properties) = 2
    /\ nodes[1].properties[PropNamePosition].id = PropByte
    /\ hdrs[2].Id = NodeIdBone

\* C25: readString returns the bytes before the first zero byte; when the
\* stream ends before a zero byte it returns the bytes read with a nil
\* error; another read error is returned with the empty string.
C25_ReadStringResult ==
    LET ZeroesOf(b) == {i \in 1..Len(b) : b[i] = 0}
        MinOf(S) == CHOOSE x \in S : \A y \in S : x <= y
    IN
    last.op = "readString" =>
        IF ZeroesOf(r.data) # {}
        THEN /\ last.err = Nil
             /\ last.str = SubSeq(r.data, 1, MinOf(ZeroesOf(r.data)) - 1)
             /\ rlog.pos = MinOf(ZeroesOf(r.data))
        ELSE IF r.err = ErrEOF
        THEN last.err = Nil /\ last.str = r.data
        ELSE last.err = r.err /\ last.str = <<>>

\* a stream of letters without zero byte ended in a read error other than
\* the end of the stream
C25_Witness ==
    LET ZeroesOf(b) == {i \in 1..Len(b) : b[i] = 0}
        MinOf(S) == CHOOSE x \in S : \A y \in S : x <= y
    IN
    /\ last.op = "readString"
    /\ Len(r.data) >= 2
    /\ ZeroesOf(r.data) = {}
    /\ r.err = ErrIO
    /\ last.err = ErrIO
    /\ rlog.reads = Len(r.data) + 1

\* what a node holds: kind, hash, properties and, in their order, the
\* contents of its children
RECURSIVE Content(_, _)
Content(h, a) ==
    [id |-> h[a].id, hash |-> h[a].hash, properties |-> h[a].properties,
     children |-> [i \in 1..Len(h[a].childNodes) |-> Content(h, h[a].childNodes[i])]]

\* C26: for a container built by New, CreateRoot, CreateChild and
\* CreateProperty, Load of the bytes Write produced succeeds and gives a
\* container of the same version, flags and, node for node, kind, hash,
\* children order and properties.
C26_WriteThenLoad ==
    [][LET FileContent(f, h) ==
               [version |-> f.version, flags |-> f.flags,
                roots |-> [i \in 1..Len(f.rootNodes) |-> Content(h, f.rootNodes[i])]]
       IN
       (last.op = "Write" /\ last'.op = "Load") =>
            /\ last'.err = Nil
            /\ FileContent(castFile', nodes') = FileContent(castFile, nodes)]_vars

\* C27: Write returns nil or the error of the sink for every container made
\* by New, CreateRoot, CreateChild, CreateProperty, SetValues and AddValues;
\* it does not panic.
C27_WriteNeverPanics ==
    last.op = "Write" => last.err \in {Nil, ErrWrite}

\* C29: CreateProperty[T](node, name, id, values...) either returns the new
\* property holding the values given, the node holding it under the name, or
\* returns an error and leaves the properties of the node as they were.
C29_GenericCreateAllOrNothing ==
    [][last'.op = "CreateProperty[T]" =>
            \/ /\ last'.err = Nil
               /\ last'.res.values = last'.values
               /\ last'.res.name = last'.name
               /\ nodes'[last'.n].properties =
                    MapPut(nodes[last'.n].properties, last'.name, last'.res)
            \/ /\ last'.err \notin {Nil, PanicType}
               /\ last'.res = NoProp
               /\ nodes' = nodes]_vars

\* C30: on an instance node, after SetPosition(p), SetRotation(r) and
\* SetScale(s) in any order, Position() is [p], Rotation() is [r] and
\* Scale() is [s].
C30_TransformComponents ==
    (last.op \in {"Position", "Rotation", "Scale"}
        /\ last.set.p # <<>> /\ last.set.r # <<>> /\ last.set.s # <<>>) =>
        last.res = CASE last.op = "Position" -> last.set.p
                     [] last.op = "Rotation" -> last.set.r
                     [] last.op = "Scale" -> last.set.s

\* the nodes reached from a by following children lists at most k times
RECURSIVE DescendantsUpTo(_, _, _)
DescendantsUpTo(h, a, k) ==
    IF k = 0 THEN {}
    ELSE LET cs == {h[a].childNodes[i] : i \in 1..Len(h[a].childNodes)} IN
         cs \cup UNION {DescendantsUpTo(h, c, k - 1) : c \in cs}

\* C28: in every state reached by the construction calls the children
\* relation is a forest: no node is its own descendant, no node is listed
\* twice in one children list, and no node is listed by two nodes.
C28_ChildrenFormForest ==
    /\ \A a \in 1..Len(nodes) : a \notin DescendantsUpTo(nodes, a, Len(nodes))
    /\ \A a \in 1..Len(nodes) : \A i, j \in 1..Len(nodes[a].childNodes) :
            nodes[a].childNodes[i] = nodes[a].childNodes[j] => i = j
    /\ \A a, b \in 1..Len(nodes) :
            (a # b) =>
                {nodes[a].childNodes[i] : i \in 1..Len(nodes[a].childNodes)}
                \cap {nodes[b].childNodes[i] : i \in 1..Len(nodes[b].childNodes)} = {}

====
